---- MODULE Spec2Model ----
(***************************************************************************)
(* Contacts REST backend (FastAPI + SQLAlchemy + Redis + python-jose).      *)
(*                                                                         *)
(* Six specifications share the state below:                               *)
(*   Spec          one request at a time against the auth endpoints        *)
(*                 (sign_up, login, refresh_token, confirmed_email,        *)
(*                 request_email, request_reset_password, reset_password,  *)
(*                 /users/me), the clock and the identity cache;           *)
(*   SpecProfile   /users/me and /users/avatar for two existing users;     *)
(*   SpecRoles     the role gates;                                         *)
(*   SpecContacts  one request at a time against the contacts endpoints;   *)
(*   SpecRace      two or more requests in flight, interleaved at their    *)
(*                 await points (store reads, commits);                    *)
(*   SpecSession   the database session of a request, from get_db to the   *)
(*                 close, with requests interleaved.                       *)
(* Time is in seconds of UTC.                                              *)
(***************************************************************************)
EXTENDS Integers, FiniteSets, Sequences, TLC

VARIABLES
    users,      \* committed rows of table "users"
    contacts,   \* committed rows of table "contacts"
    nextId,     \* next value of the contacts id sequence
    cache,      \* Redis: key "username:<name>" -> pickled row with its expiry
    now,        \* the UTC clock, seconds
    tz,         \* offset of the server's local clock from UTC, seconds
    held,       \* tokens the clients hold (from responses and from mails)
    ticks,      \* clock steps taken so far
    resp,       \* op, arguments, status and detail of the last completed request
    reqs        \* requests in flight, by slot (SpecRace)

vars == <<users, contacts, nextId, cache, now, tz, held, ticks, resp, reqs>>

-----------------------------------------------------------------------------
(* Bounds of the model *)

MaxTicks == 1
MaxHeld == 1
MaxContacts == 3
MaxReq == 2

(* Program constants *)

JWT_EXP_MIN == 60
EMAIL_TOKEN_DAYS == 7
CACHE_EX == 60
\* settings.JWT_REFRESH_EXP_DAYS is read by create_refresh_token but is not
\* declared in the Settings class under src/; "a long TTL (days)" in the spec.
JWT_REFRESH_EXP_DAYS == 7

Minutes(n) == n * 60
Days(n) == n * 86400

None == "None"

(* Input domains.  One username is spelled like an email address: the      *)
(* username column is a free string (UserCreate.username: str).            *)
Usernames == {"alice", "bob@x.com"}
Emails == {"alice@x.com", "bob@x.com"}
Passwords == {"pw1", "pw2"}
SignUpPasswords == {"pw1"}
\* libgravatar derives the URL from the address alone; Spec takes it to
\* answer
GravatarOutcomes == {TRUE}
AvatarUrls == {"cld:v1", "cld:v2"}
TzOffsets == {0 - Minutes(120), 0, Minutes(120)}
TickSteps == {Minutes(90), Days(8)}

Role == {"admin", "moderator", "user"}

-----------------------------------------------------------------------------
(* Hash: passlib bcrypt.  The digest embeds the salt; verify recomputes.   *)

SALT == "salt"

get_password_hash(password) == <<"bcrypt", SALT, password>>

verify_password(plain_password, hashed_password) ==
    hashed_password = <<"bcrypt", SALT, plain_password>>

-----------------------------------------------------------------------------
(* Tokens.  A token is its payload and whether its signature was made with *)
(* JWT_SECRET.  jose.jwt.encode turns a datetime claim into                *)
(* timegm(dt.utctimetuple()): a naive datetime is read as if it were UTC.  *)

LocalNow(nowv, tzv) == nowv + tzv      \* datetime.now(): naive local time
UtcNow(nowv) == nowv                   \* datetime.now(UTC)

Token(sub, type, exp) == [sub |-> sub, type |-> type, exp |-> exp, sig |-> "ok"]

create_access_token(sub, nowv, tzv) ==
    Token(sub, "access", LocalNow(nowv, tzv) + Minutes(JWT_EXP_MIN))

create_refresh_token(sub, nowv, tzv) ==
    Token(sub, "refresh", LocalNow(nowv, tzv) + Days(JWT_REFRESH_EXP_DAYS))

create_token_pair(sub, nowv, tzv) ==
    {create_access_token(sub, nowv, tzv), create_refresh_token(sub, nowv, tzv)}

\* no "type" claim is set
create_email_token(sub, nowv) ==
    Token(sub, None, UtcNow(nowv) + Days(EMAIL_TOKEN_DAYS))

\* jose.jwt.decode: signature, then exp (ExpiredSignatureError when
\* exp < now, both in UTC seconds).  Both errors are JWTError.
JwtExpired(token, nowv) == token.exp < UtcNow(nowv)

\* jwt.decode with verify_exp switched off
\* jwt.decode with the signature check switched off
JwtDecodes_unsigned(token, nowv) == ~JwtExpired(token, nowv)

JwtDecodes_no_exp(token, nowv) == token.sig = "ok"

JwtDecodes(token, nowv) == token.sig = "ok" /\ ~JwtExpired(token, nowv)

\* tokens a client can make up without the secret
\* a request without an Authorization header
NoBearer == [sub |-> None, type |-> None, exp |-> 0, sig |-> "absent"]

Forged ==
    {[sub |-> "alice", type |-> "access", exp |-> Days(1000), sig |-> "forged"],
     [sub |-> "alice@x.com", type |-> None, exp |-> Days(1000), sig |-> "forged"]}

-----------------------------------------------------------------------------
(* The persistent store.  A users row is                                   *)
(* [id, username, email, password, confirmed, avatar, roles].              *)

\* Result.scalar_one_or_none(): the row, nothing, or MultipleResultsFound
MultipleResultsFound(S) == Cardinality(S) > 1

get_user_by_username(rows, username) == {r \in rows : r.username = username}

get_user_by_email(rows, email) == {r \in rows : r.email = email}

NextUserId(rows) == Cardinality(rows) + 1

\* UserService.create_user + UserRepository.create_user: body is UserCreate
\* (email, username, password already hashed); confirmed and roles take the
\* column defaults.
\* schemas.UserCreate: the fields of a request body that sign_up keeps
UserCreate(body) ==
    [email |-> body.email, username |-> body.username,
     password |-> body.password]

\* create_user taking the first role of the enum instead of the default
create_user_admin(rows, username, email, hashed, avatar) ==
    [id |-> NextUserId(rows), username |-> username, email |-> email,
     password |-> hashed, confirmed |-> FALSE, avatar |-> avatar,
     roles |-> "admin"]

create_user(rows, username, email, hashed, avatar) ==
    [id |-> NextUserId(rows), username |-> username, email |-> email,
     password |-> hashed, confirmed |-> FALSE, avatar |-> avatar,
     roles |-> "user"]

\* Gravatar(email).get_image(), or None when libgravatar raises
GravatarImage(email, gravatarOk) ==
    IF gravatarOk THEN "gravatar:" \o email ELSE None

\* UserRepository.confirmed_email
repo_confirmed_email(rows, email) ==
    {IF r.email = email THEN [r EXCEPT !.confirmed = TRUE] ELSE r : r \in rows}

\* UserRepository.update_avatar_url
repo_update_avatar_url(rows, email, url) ==
    {IF r.email = email THEN [r EXCEPT !.avatar = url] ELSE r : r \in rows}

\* UserRepository.update_user_password: called by UserService, not defined
\* under src/; "password reset (replaces hash)", set_password_hash(identity,
\* hash) in the spec.
repo_update_user_password(rows, user, new_password) ==
    {IF r.id = user.id THEN [r EXCEPT !.password = new_password] ELSE r :
        r \in rows}

\* schemas.User.model_validate(row): avatar is a required str
ValidatesAsUser(row) == row.avatar # None

UserView(row) ==
    [id |-> row.id, email |-> row.email, username |-> row.username,
     avatar |-> row.avatar, roles |-> row.roles]

-----------------------------------------------------------------------------
(* The identity cache: Redis keys "username:<name>" holding a pickled row, *)
(* set with ex=60.                                                         *)

RedisKey(username) == "username:" \o username

redis_get(cachev, key, nowv) ==
    {e.row : e \in {c \in cachev : c.key = key /\ nowv < c.expires}}

redis_set(cachev, key, row, nowv) ==
    {c \in cachev : c.key # key}
        \cup {[key |-> key, row |-> row, expires |-> nowv + CACHE_EX]}

redis_delete(cachev, key) == {c \in cachev : c.key # key}

\* events.user_cache.clear_user_cache, on after_update of the flushed row
clear_user_cache(cachev, target) ==
    redis_delete(cachev, RedisKey(target.username))

PurgeExpired(cachev, nowv) == {c \in cachev : nowv < c.expires}

-----------------------------------------------------------------------------
(* Responses.  An exception no handler catches leaves as status 500 with   *)
(* the exception's class as detail.                                        *)

NoArgs == [username |-> None, password |-> None, email |-> None, token |-> {}]

Response(op, args, status, detail) ==
    [op |-> op, args |-> args, status |-> status, detail |-> detail,
     user |-> {}, tokens |-> {}, mails |-> {}, contacts |-> {},
     headers |-> {}]

\* what a client may hold after receiving tokens
Keep(tokens) == {H \in SUBSET tokens : Cardinality(H) <= MaxHeld}

\* tokens a client may present
Presentable == held \cup Forged

\* services.email.send_mail, run as a background task after the response
send_mail(email, template) == [to |-> email, template |-> template]

MailTokens(mails, nowv) == {create_email_token(m.to, nowv) : m \in mails}

-----------------------------------------------------------------------------
(* services.auth: the session resolver and the token readers               *)

\* get_current_user without the check of the "type" claim
get_current_user_any_type(token, rows, cachev, nowv, redisGetOk, redisSetOk) ==
    LET out(status, detail, user, c) ==
            [status |-> status, detail |-> detail, user |-> user, cache |-> c]
        username == token.sub
        key == RedisKey(username)
        hit == redis_get(cachev, key, nowv)
        found == get_user_by_username(rows, username)
        row == CHOOSE r \in (IF hit # {} THEN hit ELSE found) : TRUE
        written == IF hit = {} THEN redis_set(cachev, key, row, nowv)
                   ELSE cachev
    IN  IF ~JwtDecodes(token, nowv)
        THEN out(401, "Could not validate credentials", {}, cachev)
        ELSE IF ~redisGetOk
        THEN out(500, "ConnectionError", {}, cachev)
        ELSE IF hit = {} /\ found = {}
        THEN out(401, "Could not validate credentials", {}, cachev)
        ELSE IF hit = {} /\ ~redisSetOk
        THEN out(500, "ConnectionError", {}, cachev)
        ELSE IF ~ValidatesAsUser(row)
        THEN out(500, "ValidationError", {}, written)
        ELSE out(200, "", {UserView(row)}, written)

\* get_current_user.  redisGetOk, redisSetOk: whether the Redis call
\* answers or raises redis.exceptions.ConnectionError.
\* Returns [status, detail, user, cache].
get_current_user(token, rows, cachev, nowv, redisGetOk, redisSetOk) ==
    LET out(status, detail, user, c) ==
            [status |-> status, detail |-> detail, user |-> user, cache |-> c]
        username == token.sub
        key == RedisKey(username)
        hit == redis_get(cachev, key, nowv)
        found == get_user_by_username(rows, username)
        row == CHOOSE r \in (IF hit # {} THEN hit ELSE found) : TRUE
        written == IF hit = {} THEN redis_set(cachev, key, row, nowv)
                   ELSE cachev
    IN  IF token = NoBearer
        THEN out(401, "Not authenticated", {}, cachev)
        ELSE IF ~JwtDecodes(token, nowv)
        THEN out(401, "Could not validate credentials", {}, cachev)
        ELSE IF token.type # "access"
        THEN out(401, "Invalid token type", {}, cachev)
        ELSE IF ~redisGetOk
        THEN out(500, "ConnectionError", {}, cachev)
        ELSE IF hit = {} /\ found = {}
        THEN out(401, "Could not validate credentials", {}, cachev)
        ELSE IF hit = {} /\ ~redisSetOk
        THEN out(500, "ConnectionError", {}, cachev)
        ELSE IF ~ValidatesAsUser(row)
        THEN out(500, "ValidationError", {}, written)
        ELSE out(200, "", {UserView(row)}, written)

\* get_email_from_token reading the claims without verifying the token
get_email_from_token_unverified(token, nowv) ==
    [status |-> 200, detail |-> "", email |-> token.sub]

\* get_email_from_token: [status, detail, email]
get_email_from_token(token, nowv) ==
    IF ~JwtDecodes(token, nowv)
    THEN [status |-> 422, detail |-> "Uncorrect token for email check",
          email |-> None]
    ELSE [status |-> 200, detail |-> "", email |-> token.sub]

\* get_username_from_token_refresh without the check of the "type" claim
get_username_from_token_refresh_any_type(token, nowv) ==
    IF ~JwtDecodes(token, nowv)
    THEN [status |-> 422, detail |-> "Uncorrect token for username check",
          username |-> None]
    ELSE [status |-> 200, detail |-> "", username |-> token.sub]

\* get_username_from_token_refresh: [status, detail, username]
get_username_from_token_refresh(token, nowv) ==
    IF ~JwtDecodes(token, nowv)
    THEN [status |-> 422, detail |-> "Uncorrect token for username check",
          username |-> None]
    ELSE IF token.type # "refresh"
    THEN [status |-> 401, detail |-> "Invalid token type", username |-> None]
    ELSE [status |-> 200, detail |-> "", username |-> token.sub]

-----------------------------------------------------------------------------
(* api.auth: each handler as a function of the store and its inputs,       *)
(* returning [resp, users, cache].                                         *)

Outcome(r, rows, cachev) == [resp |-> r, users |-> rows, cache |-> cachev]

\* register_user with its two look-ups in the other order
register_user_email_first(rows, cachev, username, email, password, gravatarOk) ==
    LET args == [NoArgs EXCEPT !.username = username, !.email = email,
                               !.password = password]
        R(status, detail) == Response("sign_up", args, status, detail)
        new_user == create_user(rows, username, email,
                                get_password_hash(password),
                                GravatarImage(email, gravatarOk))
    IN  IF get_user_by_email(rows, email) # {}
        THEN Outcome(R(409, "User with email: " \o email
                                \o " already exists"), rows, cachev)
        ELSE IF get_user_by_username(rows, username) # {}
        THEN Outcome(R(409, "User with username: " \o username
                                \o " already exists"), rows, cachev)
        ELSE Outcome([R(201, "") EXCEPT
                        !.user = {UserView(new_user)},
                        !.mails = {send_mail(email, "verify_email.html")}],
                     rows \cup {new_user}, cachev)

\* POST /auth/sign_up/
register_user(rows, cachev, username, email, password, gravatarOk) ==
    LET args == [NoArgs EXCEPT !.username = username, !.email = email,
                               !.password = password]
        R(status, detail) == Response("sign_up", args, status, detail)
        new_user == create_user(rows, username, email,
                                get_password_hash(password),
                                GravatarImage(email, gravatarOk))
    IN  IF get_user_by_username(rows, username) # {}
        THEN Outcome(R(409, "User with username: " \o username
                                \o " already exists"), rows, cachev)
        ELSE IF get_user_by_email(rows, email) # {}
        THEN Outcome(R(409, "User with email: " \o email
                                \o " already exists"), rows, cachev)
        ELSE IF ~ValidatesAsUser(new_user)
        \* the row is committed; the response model then rejects it and the
        \* background task never runs
        THEN Outcome(R(500, "ValidationError"), rows \cup {new_user}, cachev)
        ELSE Outcome([R(201, "") EXCEPT
                        !.user = {UserView(new_user)},
                        !.mails = {send_mail(email, "verify_email.html")}],
                     rows \cup {new_user}, cachev)

WWW_Authenticate == {<<"WWW-Authenticate", "Bearer">>}

\* login_user telling an unknown username from a wrong password
login_user_names_unknown(rows, cachev, nowv, tzv, username, password) ==
    LET args == [NoArgs EXCEPT !.username = username, !.password = password]
        R(status, detail) == Response("login", args, status, detail)
        found == get_user_by_username(rows, username)
        user == CHOOSE r \in found : TRUE
    IN  IF found = {}
        THEN Outcome(R(404, "User not found"), rows, cachev)
        ELSE IF ~verify_password(password, user.password)
        THEN Outcome([R(401, "Incorrect login or password") EXCEPT
                        !.headers = WWW_Authenticate], rows, cachev)
        ELSE IF ~user.confirmed
        THEN Outcome(R(401, "Email address not confirmed"), rows, cachev)
        ELSE Outcome([R(200, "") EXCEPT
                        !.tokens = create_token_pair(user.username, nowv, tzv)],
                     rows, cachev)

\* login_user without the look at user.confirmed
login_user_unconfirmed_too(rows, cachev, nowv, tzv, username, password) ==
    LET args == [NoArgs EXCEPT !.username = username, !.password = password]
        R(status, detail) == Response("login", args, status, detail)
        found == get_user_by_username(rows, username)
        user == CHOOSE r \in found : TRUE
    IN  IF found = {} \/ ~verify_password(password, user.password)
        THEN Outcome([R(401, "Incorrect login or password") EXCEPT
                        !.headers = WWW_Authenticate], rows, cachev)
        ELSE Outcome([R(200, "") EXCEPT
                        !.tokens = create_token_pair(user.username, nowv, tzv)],
                     rows, cachev)

\* POST /auth/login/
login_user(rows, cachev, nowv, tzv, username, password) ==
    LET args == [NoArgs EXCEPT !.username = username, !.password = password]
        R(status, detail) == Response("login", args, status, detail)
        found == get_user_by_username(rows, username)
        user == CHOOSE r \in found : TRUE
    IN  IF found = {} \/ ~verify_password(password, user.password)
        THEN Outcome([R(401, "Incorrect login or password") EXCEPT
                        !.headers = WWW_Authenticate], rows, cachev)
        ELSE IF ~user.confirmed
        THEN Outcome(R(401, "Email address not confirmed"), rows, cachev)
        ELSE Outcome([R(200, "") EXCEPT
                        !.tokens = create_token_pair(user.username, nowv, tzv)],
                     rows, cachev)

\* POST /auth/refresh_token/
refresh_token(rows, cachev, nowv, tzv, token) ==
    LET args == [NoArgs EXCEPT !.token = {token}]
        R(status, detail) == Response("refresh_token", args, status, detail)
        u == get_username_from_token_refresh(token, nowv)
    IN  IF u.status # 200
        THEN Outcome(R(u.status, u.detail), rows, cachev)
        ELSE Outcome([R(200, "") EXCEPT
                        !.tokens = create_token_pair(u.username, nowv, tzv)],
                     rows, cachev)

\* GET /auth/confirmed_email/{token}
\* confirmed_email flipping the flag instead of setting it
confirmed_email_toggles(rows, cachev, nowv, token) ==
    LET args == [NoArgs EXCEPT !.token = {token}]
        R(status, detail) == Response("confirmed_email", args, status, detail)
        e == get_email_from_token(token, nowv)
        found == get_user_by_email(rows, e.email)
        user == CHOOSE r \in found : TRUE
        after == {IF r.email = e.email
                  THEN [r EXCEPT !.confirmed = ~r.confirmed] ELSE r :
                    r \in rows}
    IN  IF e.status # 200
        THEN Outcome(R(e.status, e.detail), rows, cachev)
        ELSE IF found = {}
        THEN Outcome(R(400, "Verification error"), rows, cachev)
        ELSE Outcome(R(200, "Email success confirmed"), after,
                     clear_user_cache(cachev, user))

confirmed_email(rows, cachev, nowv, token) ==
    LET args == [NoArgs EXCEPT !.token = {token}]
        R(status, detail) == Response("confirmed_email", args, status, detail)
        e == get_email_from_token(token, nowv)
        found == get_user_by_email(rows, e.email)
        user == CHOOSE r \in found : TRUE
        after == repo_confirmed_email(rows, e.email)
    IN  IF e.status # 200
        THEN Outcome(R(e.status, e.detail), rows, cachev)
        ELSE IF found = {}
        THEN Outcome(R(400, "Verification error"), rows, cachev)
        ELSE IF user.confirmed
        THEN Outcome(R(200, "Your email already confirmed"), rows, cachev)
        ELSE Outcome(R(200, "Email success confirmed"), after,
                     clear_user_cache(cachev, user))

\* POST /auth/request_email/
request_email(rows, cachev, email) ==
    LET args == [NoArgs EXCEPT !.email = email]
        R(status, detail) == Response("request_email", args, status, detail)
        found == get_user_by_email(rows, email)
        user == CHOOSE r \in found : TRUE
    IN  IF found = {}
        THEN Outcome(R(404, "User with this email not found, please check entered email."),
                     rows, cachev)
        ELSE IF user.confirmed
        THEN Outcome(R(200, "Your email already confirmed"), rows, cachev)
        ELSE Outcome([R(200, "Check your email post") EXCEPT
                        !.mails = {send_mail(user.email, "verify_email.html")}],
                     rows, cachev)

\* POST /auth/request_reset_password/
\* request_reset_password without the look at user.confirmed
request_reset_password_unconfirmed_too(rows, cachev, email) ==
    LET args == [NoArgs EXCEPT !.email = email]
        R(status, detail) ==
            Response("request_reset_password", args, status, detail)
        found == get_user_by_email(rows, email)
        user == CHOOSE r \in found : TRUE
    IN  IF found = {}
        THEN Outcome(R(404, "User with this email not found, please check entered email."),
                     rows, cachev)
        ELSE Outcome([R(200, "Check your email post") EXCEPT
                        !.mails = {send_mail(user.email,
                                             "reset_password_email.html")}],
                     rows, cachev)

request_reset_password(rows, cachev, email) ==
    LET args == [NoArgs EXCEPT !.email = email]
        R(status, detail) ==
            Response("request_reset_password", args, status, detail)
        found == get_user_by_email(rows, email)
        user == CHOOSE r \in found : TRUE
    IN  IF found = {}
        THEN Outcome(R(404, "User with this email not found, please check entered email."),
                     rows, cachev)
        ELSE IF ~user.confirmed
        THEN Outcome(R(400, "Email address not confirmed"), rows, cachev)
        ELSE Outcome([R(200, "Check your email post") EXCEPT
                        !.mails = {send_mail(user.email,
                                             "reset_password_email.html")}],
                     rows, cachev)

\* reset_password with the hashing step left out: the password is stored
\* as it came
reset_password_plain(rows, cachev, nowv, token, new_password) ==
    LET args == [NoArgs EXCEPT !.token = {token}, !.password = new_password]
        R(status, detail) == Response("reset_password", args, status, detail)
        e == get_email_from_token(token, nowv)
        found == get_user_by_email(rows, e.email)
        user == CHOOSE r \in found : TRUE
        after == repo_update_user_password(rows, user,
                                           <<"plain", SALT, new_password>>)
    IN  IF e.status # 200
        THEN Outcome(R(e.status, e.detail), rows, cachev)
        ELSE IF found = {}
        THEN Outcome(R(400, "Verification error"), rows, cachev)
        ELSE Outcome(R(200, "password successfully saved"), after,
                     clear_user_cache(cachev, user))

\* POST /auth/reset_password/
reset_password(rows, cachev, nowv, token, new_password) ==
    LET args == [NoArgs EXCEPT !.token = {token}, !.password = new_password]
        R(status, detail) == Response("reset_password", args, status, detail)
        e == get_email_from_token(token, nowv)
        found == get_user_by_email(rows, e.email)
        user == CHOOSE r \in found : TRUE
        after == repo_update_user_password(rows, user,
                                           get_password_hash(new_password))
    IN  IF e.status # 200
        THEN Outcome(R(e.status, e.detail), rows, cachev)
        ELSE IF found = {}
        THEN Outcome(R(400, "Verification error"), rows, cachev)
        ELSE Outcome(R(200, "password successfully saved"), after,
                     clear_user_cache(cachev, user))

\* GET /users/me/
me(rows, cachev, nowv, token, redisGetOk, redisSetOk) ==
    LET args == [NoArgs EXCEPT !.token = {token}]
        g == get_current_user(token, rows, cachev, nowv, redisGetOk, redisSetOk)
    IN  Outcome([Response("me", args, g.status, g.detail) EXCEPT
                    !.user = g.user],
                rows, g.cache)

\* update_avatar_user storing the URL it expects before the upload is made
update_avatar_user_stores_first(rows, cachev, nowv, token, redisGetOk, redisSetOk, uploaded, url) ==
    LET args == [NoArgs EXCEPT !.token = {token}]
        R(status, detail) ==
            Response("update_avatar_user", args, status, detail)
        g == get_current_user(token, rows, cachev, nowv, redisGetOk, redisSetOk)
        user == CHOOSE u \in g.user : TRUE
        found == get_user_by_email(rows, user.email)
        target == CHOOSE r \in found : TRUE
        after == repo_update_avatar_url(rows, user.email, url)
    IN  IF g.status # 200
        THEN Outcome(R(g.status, g.detail), rows, g.cache)
        ELSE IF found = {}
        THEN Outcome(R(500, "ValidationError"), rows, g.cache)
        ELSE IF ~uploaded
        THEN Outcome(R(502, "Cloudinary authentication failed"), after,
                     clear_user_cache(g.cache, target))
        ELSE Outcome([R(200, "") EXCEPT
                        !.user = {UserView([target EXCEPT !.avatar = url])}],
                     after, clear_user_cache(g.cache, target))

\* PATCH /users/avatar
update_avatar_user(rows, cachev, nowv, token, redisGetOk, redisSetOk, uploaded, url) ==
    LET args == [NoArgs EXCEPT !.token = {token}]
        R(status, detail) ==
            Response("update_avatar_user", args, status, detail)
        g == get_current_user(token, rows, cachev, nowv, redisGetOk, redisSetOk)
        user == CHOOSE u \in g.user : TRUE
        found == get_user_by_email(rows, user.email)
        target == CHOOSE r \in found : TRUE
        after == repo_update_avatar_url(rows, user.email, url)
    IN  IF g.status # 200
        THEN Outcome(R(g.status, g.detail), rows, g.cache)
        ELSE IF ~uploaded
        THEN Outcome(R(502, "Cloudinary authentication failed"), rows, g.cache)
        ELSE IF found = {}
        THEN Outcome(R(500, "ValidationError"), rows, g.cache)
        ELSE Outcome([R(200, "") EXCEPT
                        !.user = {UserView([target EXCEPT !.avatar = url])}],
                     after, clear_user_cache(g.cache, target))

-----------------------------------------------------------------------------
(* State *)

\* what the state keeps of a response
Brief(r) ==
    [op |-> r.op, args |-> r.args, status |-> r.status, detail |-> r.detail]

NoResponse == Brief(Response("none", NoArgs, 0, ""))

InitStore ==
    /\ users = {}
    /\ contacts = {}
    /\ nextId = 1
    /\ cache = {}
    /\ now = 0
    /\ tz \in TzOffsets
    /\ held = {}
    /\ ticks = 0
    /\ resp = NoResponse
    /\ reqs = <<>>

Init == InitStore

\* a handler's outcome becomes the state; mails go out after the response
\* and the client keeps some of the tokens it was given
Serve(o) ==
    /\ users' = o.users
    /\ cache' = o.cache
    /\ resp' = Brief(o.resp)
    /\ held' \in Keep(held \cup o.resp.tokens \cup MailTokens(o.resp.mails, now))
    /\ UNCHANGED <<contacts, nextId, now, tz, ticks, reqs>>

SignUp ==
    \E username \in Usernames, email \in Emails, password \in SignUpPasswords,
       gravatarOk \in GravatarOutcomes :
        Serve(register_user(users, cache, username, email, password, gravatarOk))

Login ==
    \E username \in Usernames, password \in Passwords :
        Serve(login_user(users, cache, now, tz, username, password))

RefreshToken ==
    \E token \in Presentable : Serve(refresh_token(users, cache, now, tz, token))

ConfirmedEmail ==
    \E token \in Presentable : Serve(confirmed_email(users, cache, now, token))

RequestEmail ==
    \E email \in Emails : Serve(request_email(users, cache, email))

RequestResetPassword ==
    \E email \in Emails : Serve(request_reset_password(users, cache, email))

ResetPassword ==
    \E token \in Presentable, new_password \in Passwords :
        Serve(reset_password(users, cache, now, token, new_password))

Me ==
    \E token \in Presentable \cup {NoBearer}, redisGetOk \in BOOLEAN,
       redisSetOk \in BOOLEAN :
        Serve(me(users, cache, now, token, redisGetOk, redisSetOk))

UpdateAvatarUser ==
    \E token \in Presentable \cup {NoBearer}, redisGetOk \in BOOLEAN,
       redisSetOk \in BOOLEAN, uploaded \in BOOLEAN, url \in AvatarUrls :
        Serve(update_avatar_user(users, cache, now, token, redisGetOk,
                                 redisSetOk, uploaded, url))

\* time passes; Redis drops the keys whose ex has run out
Tick ==
    \E d \in TickSteps :
        /\ ticks < MaxTicks
        /\ ticks' = ticks + 1
        /\ now' = now + d
        /\ cache' = PurgeExpired(cache, now + d)
        /\ UNCHANGED <<users, contacts, nextId, tz, held, resp, reqs>>

Next ==
    \/ SignUp
    \/ Login
    \/ RefreshToken
    \/ ConfirmedEmail
    \/ RequestEmail
    \/ RequestResetPassword
    \/ ResetPassword
    \/ Me
    \/ Tick

Spec == Init /\ [][Next]_vars

-----------------------------------------------------------------------------
(* SpecProfile: the two endpoints of /users, with a confirmed user who has *)
(* logged in and an unconfirmed one.                                       *)

ProfileAlice ==
    [create_user({}, "alice", "alice@x.com", get_password_hash("pw1"),
                 GravatarImage("alice@x.com", TRUE))
        EXCEPT !.confirmed = TRUE]

ProfileBob ==
    create_user({ProfileAlice}, "bob@x.com", "bob@x.com",
                get_password_hash("pw1"), GravatarImage("bob@x.com", TRUE))

InitProfile ==
    /\ users = {ProfileAlice, ProfileBob}
    /\ contacts = {}
    /\ nextId = 1
    /\ cache = {}
    /\ now = 0
    /\ tz = 0
    /\ held = {t \in create_token_pair("alice", 0, 0) : t.type = "access"}
    /\ ticks = 0
    /\ resp = NoResponse
    /\ reqs = <<>>

NextProfile ==
    \/ Me
    \/ UpdateAvatarUser
    \/ Tick

\* the users as get_current_user hands them to an endpoint
Identities == {UserView(u) : u \in users}

SpecProfile == InitProfile /\ [][NextProfile]_vars

\* subjects of correctly signed access tokens that name nobody
OrphanSubs == {None, "carol"}

Unauthenticated ==
    {NoBearer} \cup Forged
        \cup {create_access_token(sub, now, tz) : sub \in OrphanSubs}

C26_AvatarUpload ==
    \A token \in Presentable, url \in AvatarUrls :
        LET g == get_current_user(token, users, cache, now, TRUE, TRUE)
            failed == update_avatar_user(users, cache, now, token, TRUE, TRUE,
                                         FALSE, url)
            done == update_avatar_user(users, cache, now, token, TRUE, TRUE,
                                       TRUE, url)
        IN  g.status = 200 =>
                /\ failed.resp.status = 502
                /\ failed.resp.detail = "Cloudinary authentication failed"
                /\ failed.resp.user = {}
                /\ failed.users = users
                /\ done.resp.status = 200
                /\ \E u \in users :
                    /\ u.username = token.sub
                    /\ done.users =
                            (users \ {u}) \cup {[u EXCEPT !.avatar = url]}
                    /\ done.resp.user = {UserView([u EXCEPT !.avatar = url])}

C26_Witness ==
    /\ resp.op = "update_avatar_user"
    /\ resp.status = 502
    /\ \E t \in resp.args.token, u \in users :
        /\ u.username = t.sub
        /\ JwtDecodes(t, now) /\ t.type = "access"
        /\ u.avatar = "cld:v1"

-----------------------------------------------------------------------------
(* Properties of the auth endpoints, checked under Spec.  Each ranges over *)
(* the reachable states and over every input the handler may be given      *)
(* there.                                                                  *)

\* tokens the service signed, by the purpose they were issued for
SessionTokens == {t \in held : t.sig = "ok" /\ t.type \in {"access", "refresh"}}
EmailTokens == {t \in held : t.sig = "ok" /\ t.type = None}

\* C1: for every confirmed user, login_user with the username and the
\* stored password returns a token pair, and get_current_user on the pair's
\* access token returns that user (same id, email, username).
C1_LoginResolvesIdentity ==
    \A u \in users, password \in Passwords :
        (u.confirmed /\ verify_password(password, u.password)) =>
            LET o == login_user(users, cache, now, tz, u.username, password)
                access == {t \in o.resp.tokens : t.type = "access"}
            IN  /\ o.resp.status = 200
                /\ Cardinality(o.resp.tokens) = 2
                /\ access # {}
                /\ \A t \in access :
                    LET g == get_current_user(t, o.users, o.cache, now,
                                              TRUE, TRUE)
                    IN  g.status = 200 /\ g.user = {UserView(u)}

\* C2: no access or refresh token makes confirmed_email or reset_password
\* succeed, and no email token makes get_current_user or refresh_token
\* succeed.
C2_TokensNotInterchangeable ==
    /\ \A t \in SessionTokens, new_password \in Passwords :
        /\ confirmed_email(users, cache, now, t).resp.status # 200
        /\ confirmed_email(users, cache, now, t).users = users
        /\ reset_password(users, cache, now, t, new_password).resp.status # 200
        /\ reset_password(users, cache, now, t, new_password).users = users
    /\ \A t \in EmailTokens :
        /\ get_current_user(t, users, cache, now, TRUE, TRUE).status # 200
        /\ refresh_token(users, cache, now, tz, t).resp.status # 200

\* C3: get_current_user given a refresh token ends in 401 and returns no
\* identity; refresh_token given an access token issues no tokens.
C3_WrongPurposeNeverResolves ==
    \A t \in held :
        /\ (t.sig = "ok" /\ t.type = "refresh") =>
            \A redisGetOk \in BOOLEAN, redisSetOk \in BOOLEAN :
                LET g == get_current_user(t, users, cache, now,
                                          redisGetOk, redisSetOk)
                IN  g.status = 401 /\ g.user = {} /\ g.cache = cache
        /\ (t.sig = "ok" /\ t.type = "access") =>
            LET o == refresh_token(users, cache, now, tz, t)
            IN  o.resp.status \in {401, 422} /\ o.resp.tokens = {}

C3_Witness ==
    /\ resp.op = "me"
    /\ resp.status = 401
    /\ resp.detail = "Invalid token type"
    /\ \E t \in resp.args.token :
        t.sig = "ok" /\ t.type = "refresh" /\ ~JwtExpired(t, now)

\* C7: when a Redis call fails, get_current_user with a valid access token
\* of an existing user still returns that user from the store.
C7_CacheDownDegradesToStore ==
    \A t \in held, redisGetOk \in BOOLEAN, redisSetOk \in BOOLEAN :
        (/\ t.sig = "ok" /\ t.type = "access" /\ ~JwtExpired(t, now)
         /\ get_user_by_username(users, t.sub) # {}) =>
            LET g == get_current_user(t, users, cache, now,
                                      redisGetOk, redisSetOk)
            IN  /\ g.status = 200
                /\ g.user = {UserView(r) :
                                r \in get_user_by_username(users, t.sub)}

\* C8: a correctly signed token whose exp is earlier than now is rejected by
\* get_current_user, refresh_token, confirmed_email and reset_password:
\* no identity, no tokens, no change of the store or the cache.
C8_ExpiredTokenRejected ==
    \A t \in held :
        (t.sig = "ok" /\ t.exp < now) =>
            /\ \A redisGetOk \in BOOLEAN, redisSetOk \in BOOLEAN :
                LET g == get_current_user(t, users, cache, now,
                                          redisGetOk, redisSetOk)
                IN  g.status = 401 /\ g.user = {} /\ g.cache = cache
            /\ LET o == refresh_token(users, cache, now, tz, t)
               IN  /\ o.resp.status = 422 /\ o.resp.tokens = {}
                   /\ o.users = users /\ o.cache = cache
            /\ LET o == confirmed_email(users, cache, now, t)
               IN  o.resp.status = 422 /\ o.users = users /\ o.cache = cache
            /\ \A new_password \in Passwords :
                LET o == reset_password(users, cache, now, t, new_password)
                IN  o.resp.status = 422 /\ o.users = users /\ o.cache = cache

C8_Witness ==
    /\ resp.op = "reset_password"
    /\ resp.status = 422
    /\ \E t \in resp.args.token :
        /\ t.sig = "ok" /\ t.type = None /\ t.exp < now
        /\ get_user_by_email(users, t.sub) # {}

\* C9 as stated: reset_password with a valid email token of an existing
\* user answers "password successfully saved", after which login_user
\* succeeds with the new password and fails with the old one.
C9_ResetThenLogin ==
    \A t \in EmailTokens, new_password \in Passwords :
        \A u \in get_user_by_email(users, t.sub) :
            ~JwtExpired(t, now) =>
                LET o == reset_password(users, cache, now, t, new_password)
                    login(password) ==
                        login_user(o.users, o.cache, now, tz, u.username,
                                   password).resp
                IN  /\ o.resp.status = 200
                    /\ o.resp.detail = "password successfully saved"
                    /\ login(new_password).status = 200
                    /\ \A old \in Passwords :
                        verify_password(old, u.password) =>
                            login(old).status # 200

\* C9 amended: the hash is replaced and nothing else; afterwards the new
\* password passes login_user's password check (a token pair for a
\* confirmed user, 401 "Email address not confirmed" otherwise) and every
\* other password fails it.
C9_ResetReplacesHash ==
    \A t \in EmailTokens, new_password \in Passwords :
        \A u \in get_user_by_email(users, t.sub) :
            ~JwtExpired(t, now) =>
                LET o == reset_password(users, cache, now, t, new_password)
                    login(password) ==
                        login_user(o.users, o.cache, now, tz, u.username,
                                   password).resp
                IN  /\ o.resp.status = 200
                    /\ o.resp.detail = "password successfully saved"
                    /\ o.users = (users \ {u}) \cup
                        {[u EXCEPT !.password = get_password_hash(new_password)]}
                    /\ IF u.confirmed
                       THEN /\ login(new_password).status = 200
                            /\ login(new_password).tokens =
                                create_token_pair(u.username, now, tz)
                       ELSE /\ login(new_password).status = 401
                            /\ login(new_password).detail =
                                "Email address not confirmed"
                    /\ \A other \in Passwords \ {new_password} :
                        /\ login(other).status = 401
                        /\ login(other).detail = "Incorrect login or password"

C9_Witness ==
    /\ resp.op = "reset_password"
    /\ resp.status = 200
    /\ resp.detail = "password successfully saved"
    /\ \E t \in resp.args.token, u \in users :
        /\ t.sig = "ok" /\ t.type = None /\ u.email = t.sub
        /\ u.confirmed
        /\ resp.args.password = "pw2"
        /\ u.password = get_password_hash("pw2")

\* C13: sign_up with an existing username answers 409 naming the username,
\* also when the email exists too; with a new username and an existing
\* email it answers 409 naming the email; neither creates a user nor
\* queues a mail.
C13_SignUpConflicts ==
    \A username \in Usernames, email \in Emails, password \in Passwords,
       gravatarOk \in BOOLEAN :
        LET o == register_user(users, cache, username, email, password,
                               gravatarOk)
            refused(detail) ==
                /\ o.resp.status = 409
                /\ o.resp.detail = detail
                /\ o.users = users
                /\ o.resp.user = {}
                /\ o.resp.mails = {}
        IN  /\ get_user_by_username(users, username) # {} =>
                refused("User with username: " \o username
                            \o " already exists")
            /\ (/\ get_user_by_username(users, username) = {}
                /\ get_user_by_email(users, email) # {}) =>
                refused("User with email: " \o email \o " already exists")

C13_Witness ==
    /\ resp.op = "sign_up"
    /\ resp.status = 409
    /\ get_user_by_username(users, resp.args.username) # {}
    /\ get_user_by_email(users, resp.args.email) # {}
    /\ resp.detail = "User with username: " \o resp.args.username
                        \o " already exists"

\* what a client sees of a response
Seen(r) ==
    [status |-> r.status, detail |-> r.detail, headers |-> r.headers,
     user |-> r.user, tokens |-> r.tokens, mails |-> r.mails]

\* C14: login_user answers an unregistered username and a registered
\* username with a wrong password alike (401, "Incorrect login or
\* password", the same headers) and changes nothing.
C14_LoginDoesNotRevealUsernames ==
    \A unknown \in Usernames, u \in users, p \in Passwords, q \in Passwords :
        (/\ get_user_by_username(users, unknown) = {}
         /\ ~verify_password(q, u.password)) =>
            LET a == login_user(users, cache, now, tz, unknown, p)
                b == login_user(users, cache, now, tz, u.username, q)
            IN  /\ Seen(a.resp) = Seen(b.resp)
                /\ a.resp.status = 401
                /\ a.resp.detail = "Incorrect login or password"
                /\ a.users = users /\ b.users = users
                /\ a.cache = cache /\ b.cache = cache

C14_Witness ==
    /\ resp.op = "login"
    /\ resp.status = 401
    /\ resp.detail = "Incorrect login or password"
    /\ \E u \in users :
        /\ u.username = resp.args.username
        /\ ~verify_password(resp.args.password, u.password)
    /\ \E unknown \in Usernames : get_user_by_username(users, unknown) = {}

\* C15: login_user gives an unconfirmed user no tokens, and answers the
\* right password with 401 "Email address not confirmed"; a user becomes
\* confirmed only by a confirmed_email that succeeds, and a login that
\* returns a token pair is that of a confirmed user.
C15_NoTokensBeforeConfirmation ==
    [][/\ \A u \in users, password \in Passwords :
            ~u.confirmed =>
                LET o == login_user(users, cache, now, tz, u.username,
                                    password)
                IN  /\ o.resp.status = 401
                    /\ o.resp.tokens = {}
                    /\ verify_password(password, u.password) =>
                            o.resp.detail = "Email address not confirmed"
       /\ \A u \in users, v \in users' :
            (v.id = u.id /\ ~u.confirmed /\ v.confirmed) =>
                /\ resp'.op = "confirmed_email"
                /\ resp'.status = 200
                /\ resp'.detail = "Email success confirmed"
       /\ (resp'.op = "login" /\ resp'.status = 200) =>
            \E u \in users : u.username = resp'.args.username /\ u.confirmed
      ]_vars

C15_Witness ==
    /\ resp.op = "login"
    /\ resp.status = 401
    /\ resp.detail = "Email address not confirmed"
    /\ \E u \in users :
        /\ u.username = resp.args.username
        /\ ~u.confirmed
        /\ verify_password(resp.args.password, u.password)

\* how long after its issue a token is presented
Delays == {0, Minutes(30)} \cup TickSteps

\* C28: a token issued now with time-to-live d carries exp = now + d on the
\* clock jwt.decode reads, so it decodes at every instant before now + d
\* and not at any instant after, for access, refresh and email tokens and
\* for every offset of the server's local clock.
C28_ExpOnVerificationClock ==
    \A sub \in Usernames :
        \A issued \in
            {[token |-> create_access_token(sub, now, tz),
              ttl |-> Minutes(JWT_EXP_MIN)],
             [token |-> create_refresh_token(sub, now, tz),
              ttl |-> Days(JWT_REFRESH_EXP_DAYS)],
             [token |-> create_email_token(sub, now),
              ttl |-> Days(EMAIL_TOKEN_DAYS)]} :
            /\ issued.token.exp = UtcNow(now) + issued.ttl
            /\ \A d \in Delays :
                /\ d < issued.ttl => JwtDecodes(issued.token, now + d)
                /\ d > issued.ttl => ~JwtDecodes(issued.token, now + d)

\* the users a token pair may be issued for
ConfirmedUsernames == {u.username : u \in {v \in users : v.confirmed}}

\* C29: every token pair login_user or refresh_token issues, in whatever
\* reachable state and for whatever input, has as its subject the username
\* of a user who is in the store and confirmed at that moment; so has
\* every access and refresh token a client holds.
C29_PairsOnlyForConfirmed ==
    /\ \A username \in Usernames, password \in Passwords :
            \A t \in login_user(users, cache, now, tz, username,
                                 password).resp.tokens :
                t.sub = username /\ t.sub \in ConfirmedUsernames
    /\ \A token \in Presentable :
            \A t \in refresh_token(users, cache, now, tz, token).resp.tokens :
                t.sub = token.sub /\ t.sub \in ConfirmedUsernames
    /\ \A t \in SessionTokens : t.sub \in ConfirmedUsernames

C29_Witness ==
    /\ resp.op = "refresh_token"
    /\ resp.status = 200
    /\ \E t \in resp.args.token :
        t.type = "refresh" /\ t.sub \in ConfirmedUsernames
    /\ \E u \in users : ~u.confirmed

\* C30: when Gravatar gives no image, sign_up stores the user with a null
\* avatar and still answers 201 with the created user, and
\* get_current_user with an unexpired access token of that user still
\* returns the user.
C30_NullAvatarHandled ==
    \A username \in Usernames, email \in Emails, password \in Passwords :
        (/\ get_user_by_username(users, username) = {}
         /\ get_user_by_email(users, email) = {}) =>
            LET o == register_user(users, cache, username, email, password,
                                   FALSE)
                access == Token(username, "access",
                                UtcNow(now) + Minutes(JWT_EXP_MIN))
                g == get_current_user(access, o.users, o.cache, now, TRUE,
                                      TRUE)
            IN  /\ \E u \in o.users : u.username = username /\ u.avatar = None
                /\ o.resp.status = 201
                /\ \E v \in o.resp.user : v.username = username
                /\ g.status = 200
                /\ \E v \in g.user : v.username = username

\* a string that is not a JWT at all
Malformed == [sub |-> None, type |-> None, exp |-> 0, sig |-> "malformed"]

\* tokens jwt.decode cannot decode whatever the time: malformed or signed
\* with another key
Undecodable == Forged \cup {Malformed}

\* C27: confirmed_email and reset_password given a malformed or wrongly
\* signed token answer 422 "Uncorrect token for email check" and leave
\* every confirmed flag and every password hash (the whole users table and
\* the cache) as they were.
C27_UndecodableEmailToken ==
    \A token \in Undecodable, new_password \in Passwords :
        \A o \in {confirmed_email(users, cache, now, token),
                   reset_password(users, cache, now, token, new_password)} :
            /\ o.resp.status = 422
            /\ o.resp.detail = "Uncorrect token for email check"
            /\ o.users = users
            /\ o.cache = cache

C27_Witness ==
    /\ resp.op = "confirmed_email"
    /\ resp.status = 422
    /\ resp.detail = "Uncorrect token for email check"
    /\ \E t \in resp.args.token, u \in users :
        t \in Forged /\ u.email = t.sub /\ ~u.confirmed

\* request bodies of sign_up, with a field the schema does not know
SignUpBodies ==
    [username : Usernames, email : Emails, password : Passwords, roles : Role]

\* C18: every user has the role "user": sign_up stores it whatever the
\* request body says, and confirmed_email, reset_password and
\* update_avatar_user leave every role as it is.
C18_EveryRoleIsUser ==
    /\ \A u \in users : u.roles = "user"
    /\ \A body \in SignUpBodies, gravatarOk \in BOOLEAN :
            LET b == UserCreate(body)
                o == register_user(users, cache, b.username, b.email,
                                   b.password, gravatarOk)
            IN  \A v \in o.users : v.roles = "user"
    /\ \A token \in Presentable, p \in Passwords, url \in AvatarUrls :
            \A o \in {confirmed_email(users, cache, now, token),
                       reset_password(users, cache, now, token, p),
                       update_avatar_user(users, cache, now, token, TRUE,
                                          TRUE, TRUE, url)} :
                /\ \A v \in o.users : v.roles = "user"
                /\ {v.id : v \in o.users} = {u.id : u \in users}

C18_Witness ==
    /\ resp.op = "reset_password"
    /\ resp.status = 200
    /\ \E u \in users :
        /\ u.confirmed
        /\ u.password = get_password_hash("pw2")
        /\ u.roles = "user"

\* C19: a confirmed user stays confirmed over every step, and
\* confirmed_email with a decodable token of a confirmed user answers "Your
\* email already confirmed" and changes nothing.
C19_ConfirmationOneWay ==
    [][/\ \A u \in users :
            u.confirmed => \E v \in users' : v.id = u.id /\ v.confirmed
       /\ \A t \in held, u \in users :
            (JwtDecodes(t, now) /\ u.email = t.sub /\ u.confirmed) =>
                LET o == confirmed_email(users, cache, now, t)
                IN  /\ o.resp.status = 200
                    /\ o.resp.detail = "Your email already confirmed"
                    /\ o.users = users
                    /\ o.cache = cache
      ]_vars

C19_Witness ==
    /\ resp.op = "confirmed_email"
    /\ resp.status = 200
    /\ resp.detail = "Your email already confirmed"
    /\ \E t \in resp.args.token, u \in users :
        u.email = t.sub /\ u.confirmed /\ t.type = None

\* C20: request_reset_password answers 404 for an email of no user, 400
\* "Email address not confirmed" for an unconfirmed user and 200 "Check
\* your email post" for a confirmed one; it queues the reset mail in the
\* last case only and never changes the store.
C20_RequestResetPassword ==
    \A email \in Emails :
        LET o == request_reset_password(users, cache, email)
            found == get_user_by_email(users, email)
        IN  /\ o.users = users
            /\ o.cache = cache
            /\ found = {} => (o.resp.status = 404 /\ o.resp.mails = {})
            /\ \A u \in found :
                IF u.confirmed
                THEN /\ o.resp.status = 200
                     /\ o.resp.detail = "Check your email post"
                     /\ o.resp.mails =
                            {send_mail(email, "reset_password_email.html")}
                ELSE /\ o.resp.status = 400
                     /\ o.resp.detail = "Email address not confirmed"
                     /\ o.resp.mails = {}

C20_Witness ==
    /\ resp.op = "request_reset_password"
    /\ resp.status = 400
    /\ resp.detail = "Email address not confirmed"
    /\ \E u \in users : u.email = resp.args.email /\ ~u.confirmed

-----------------------------------------------------------------------------
(* SpecRoles: the role gates, applied to users whose roles column holds    *)
(* any value of the enum.                                                  *)

\* a gate that lets everybody through
RoleAccess_open(allowed_roles, current_user) ==
    [status |-> 200, detail |-> "", user |-> {current_user}]

\* RoleAccess(allowed_roles).__call__
RoleAccess(allowed_roles, current_user) ==
    IF current_user.roles \notin allowed_roles
    THEN [status |-> 403, detail |-> "Operation forbidden", user |-> {}]
    ELSE [status |-> 200, detail |-> "", user |-> {current_user}]

get_current_admin_user(current_user) ==
    IF current_user.roles # "admin"
    THEN [status |-> 403, detail |-> "Forbidden operation", user |-> {}]
    ELSE [status |-> 200, detail |-> "", user |-> {current_user}]

InitRoles ==
    /\ \E r1 \in Role, r2 \in Role :
            users = {[ProfileAlice EXCEPT !.roles = r1],
                     [ProfileBob EXCEPT !.roles = r2]}
    /\ contacts = {}
    /\ nextId = 1
    /\ cache = {}
    /\ now = 0
    /\ tz = 0
    /\ held = {}
    /\ ticks = 0
    /\ resp = NoResponse
    /\ reqs = <<>>

GateArgs(allowed_roles, current_user) ==
    [allowed_roles |-> allowed_roles, user_id |-> current_user.id]

RoleGate ==
    \E current_user \in Identities, allowed_roles \in SUBSET Role :
        LET g == RoleAccess(allowed_roles, current_user)
        IN  /\ resp' = [op |-> "RoleAccess",
                        args |-> GateArgs(allowed_roles, current_user),
                        status |-> g.status, detail |-> g.detail]
            /\ UNCHANGED <<users, contacts, nextId, cache, now, tz, held,
                           ticks, reqs>>

AdminGate ==
    \E current_user \in Identities :
        LET g == get_current_admin_user(current_user)
        IN  /\ resp' = [op |-> "get_current_admin_user",
                        args |-> GateArgs({"admin"}, current_user),
                        status |-> g.status, detail |-> g.detail]
            /\ UNCHANGED <<users, contacts, nextId, cache, now, tz, held,
                           ticks, reqs>>

NextRoles ==
    \/ RoleGate
    \/ AdminGate

SpecRoles == InitRoles /\ [][NextRoles]_vars

\* C17: RoleAccess(allowed_roles) returns the user exactly when the user's
\* role is one of allowed_roles and answers 403 otherwise;
\* get_current_admin_user decides as RoleAccess([admin]) does; applying a
\* gate changes neither the store nor the cache.
C17_RoleGate ==
    [][/\ \A current_user \in Identities, allowed_roles \in SUBSET Role :
            LET g == RoleAccess(allowed_roles, current_user)
            IN  /\ current_user.roles \in allowed_roles =>
                        (g.status = 200 /\ g.user = {current_user})
                /\ current_user.roles \notin allowed_roles =>
                        (g.status = 403 /\ g.user = {})
                /\ get_current_admin_user(current_user).status =
                        RoleAccess({"admin"}, current_user).status
       /\ resp'.op \in {"RoleAccess", "get_current_admin_user"} =>
            /\ users' = users /\ cache' = cache /\ contacts' = contacts
            /\ \E u \in Identities :
                /\ u.id = resp'.args.user_id
                /\ resp'.status =
                        IF u.roles \in resp'.args.allowed_roles THEN 200
                        ELSE 403
      ]_vars

C17_Witness ==
    /\ resp.op = "RoleAccess"
    /\ resp.status = 403
    /\ resp.args.allowed_roles = {"admin", "moderator"}
    /\ \E u \in users : u.id = resp.args.user_id /\ u.roles = "user"

-----------------------------------------------------------------------------
(* Contacts.  A contacts row is                                            *)
(* [id, user_id, first_name, email, phone_number, birthday]; last_name and *)
(* description are carried like first_name and left out.  A phone number   *)
(* is its text with what the validators read of it: a leading "+" and the  *)
(* number of digits.                                                       *)

Phone(text, plus, digits) == [text |-> text, plus |-> plus, digits |-> digits]

Phones ==
    {Phone("+15551234567", TRUE, 11), Phone("380935057019", FALSE, 12),
     Phone("12345", FALSE, 5)}
ContactEmails == {"a@x.com", "b@x.com"}
FirstNames == {"Ann", "Ben"}
Birthdays == {[month |-> 1, day |-> 1]}

ContactBodies ==
    [first_name : FirstNames, email : ContactEmails, phone_number : Phones,
     birthday : Birthdays]

\* Contact.validate_phone_number: ^\+?\d{10,15}$
validate_phone_number(value) == value.digits >= 10 /\ value.digits <= 15

\* uq_user_contact_email, uq_user_contact_phone
UniqueViolated(rows) ==
    \E c \in rows, d \in rows :
        /\ c.id # d.id
        /\ c.user_id = d.user_id
        /\ (c.email = d.email \/ c.phone_number = d.phone_number)

ContactRow(id, body, user) ==
    [id |-> id, user_id |-> user.id, first_name |-> body.first_name,
     email |-> body.email, phone_number |-> body.phone_number,
     birthday |-> body.birthday]

\* get_contact_by_id without the owner in the filter
get_contact_by_id_any_owner(rows, contact_id, user) ==
    {c \in rows : c.id = contact_id}

\* ContactRepository.get_contact_by_id
get_contact_by_id(rows, contact_id, user) ==
    {c \in rows : c.id = contact_id /\ c.user_id = user.id}

\* ContactRepository.get_contacts with an optional email filter and the
\* default skip and limit
get_contacts(rows, params, user) ==
    {c \in rows : c.user_id = user.id /\ (params = {} \/ c.email \in params)}

\* the rows check_contact_duplicate selects
DuplicateRows(rows, body, user) ==
    {c \in rows :
        /\ c.user_id = user.id
        /\ (c.email = body.email \/ c.phone_number = body.phone_number)}

\* ContactRepository.check_contact_duplicate: "raise" when
\* scalar_one_or_none finds more than one row
check_contact_duplicate(rows, body, user) ==
    IF MultipleResultsFound(DuplicateRows(rows, body, user)) THEN "raise"
    ELSE IF DuplicateRows(rows, body, user) # {} THEN "duplicate"
    ELSE "none"

\* ContactRepository.create_contact up to the commit: the exception it
\* raises, or None
create_contact_precheck(rows, body, user) ==
    IF check_contact_duplicate(rows, body, user) = "raise"
    THEN "MultipleResultsFound"
    ELSE IF check_contact_duplicate(rows, body, user) = "duplicate"
    THEN "Contact with this email or phone number already exists."
    ELSE IF ~validate_phone_number(body.phone_number)
    THEN "Invalid phone number format."
    ELSE None

ValueErrors ==
    {"Contact with this email or phone number already exists.",
     "Invalid phone number format."}

\* the INSERT and commit: IntegrityError when a unique constraint fails
CommitInsert(rows, row) ==
    IF UniqueViolated(rows \cup {row}) THEN rows ELSE rows \cup {row}

ContactOutcome(r, rows, seq) == [resp |-> r, contacts |-> rows, nextId |-> seq]

ContactArgs(user, contact_id, body) ==
    [user_id |-> user.id, contact_id |-> contact_id, body |-> body]

\* POST /contacts/ : api.create_contact, ContactService.create_contact
\* (ValueError -> 400), ContactRepository.create_contact
create_contact(rows, seq, body, user) ==
    LET R(status, detail) ==
            Response("create_contact", ContactArgs(user, 0, {body}),
                     status, detail)
        raised == create_contact_precheck(rows, body, user)
        contact == ContactRow(seq, body, user)
    IN  IF raised \in ValueErrors
        THEN ContactOutcome(R(400, raised), rows, seq)
        ELSE IF raised # None
        THEN ContactOutcome(R(500, raised), rows, seq)
        ELSE IF UniqueViolated(rows \cup {contact})
        THEN ContactOutcome(R(500, "IntegrityError"), rows, seq)
        ELSE ContactOutcome([R(201, "") EXCEPT !.contacts = {contact}],
                            CommitInsert(rows, contact), seq + 1)

\* GET /contacts/{contact_id}
read_contact(rows, seq, contact_id, user) ==
    LET R(status, detail) ==
            Response("read_contact", ContactArgs(user, contact_id, {}),
                     status, detail)
        found == get_contact_by_id(rows, contact_id, user)
    IN  IF found = {}
        THEN ContactOutcome(R(404, "Contact not found"), rows, seq)
        ELSE ContactOutcome([R(200, "") EXCEPT !.contacts = found], rows, seq)

\* GET /contacts/
read_contacts(rows, seq, params, user) ==
    ContactOutcome([Response("read_contacts", ContactArgs(user, 0, {}),
                             200, "") EXCEPT
                        !.contacts = get_contacts(rows, params, user)],
                   rows, seq)

\* update_contact on a table without the two unique constraints
update_contact_unconstrained(rows, seq, contact_id, body, user) ==
    LET R(status, detail) ==
            Response("update_contact", ContactArgs(user, contact_id, {body}),
                     status, detail)
        found == get_contact_by_id(rows, contact_id, user)
        contact == CHOOSE c \in found : TRUE
        updated == ContactRow(contact.id, body, user)
    IN  IF found = {}
        THEN ContactOutcome(R(404, "Contact not found"), rows, seq)
        ELSE IF ~validate_phone_number(body.phone_number)
        THEN ContactOutcome(R(500, "ValueError"), rows, seq)
        ELSE ContactOutcome([R(200, "") EXCEPT !.contacts = {updated}],
                            (rows \ {contact}) \cup {updated}, seq)

\* update_contact assigning every field of the body but first_name
update_contact_keeps_name(rows, seq, contact_id, body, user) ==
    LET R(status, detail) ==
            Response("update_contact", ContactArgs(user, contact_id, {body}),
                     status, detail)
        found == get_contact_by_id(rows, contact_id, user)
        contact == CHOOSE c \in found : TRUE
        updated == [ContactRow(contact.id, body, user) EXCEPT
                        !.first_name = contact.first_name]
        after == (rows \ {contact}) \cup {updated}
    IN  IF found = {}
        THEN ContactOutcome(R(404, "Contact not found"), rows, seq)
        ELSE IF ~validate_phone_number(body.phone_number)
        THEN ContactOutcome(R(500, "ValueError"), rows, seq)
        ELSE IF UniqueViolated(after)
        THEN ContactOutcome(R(500, "IntegrityError"), rows, seq)
        ELSE ContactOutcome([R(200, "") EXCEPT !.contacts = {updated}],
                            after, seq)

\* PUT /contacts/{contact_id} : no handler catches the validator's
\* ValueError or the commit's IntegrityError
update_contact(rows, seq, contact_id, body, user) ==
    LET R(status, detail) ==
            Response("update_contact", ContactArgs(user, contact_id, {body}),
                     status, detail)
        found == get_contact_by_id(rows, contact_id, user)
        contact == CHOOSE c \in found : TRUE
        updated == ContactRow(contact.id, body, user)
        after == (rows \ {contact}) \cup {updated}
    IN  IF found = {}
        THEN ContactOutcome(R(404, "Contact not found"), rows, seq)
        ELSE IF ~validate_phone_number(body.phone_number)
        THEN ContactOutcome(R(500, "ValueError"), rows, seq)
        ELSE IF UniqueViolated(after)
        THEN ContactOutcome(R(500, "IntegrityError"), rows, seq)
        ELSE ContactOutcome([R(200, "") EXCEPT !.contacts = {updated}],
                            after, seq)

\* remove_contact deleting by owner instead of by id
remove_contact_whole_owner(rows, seq, contact_id, user) ==
    LET R(status, detail) ==
            Response("remove_contact", ContactArgs(user, contact_id, {}),
                     status, detail)
        found == get_contact_by_id(rows, contact_id, user)
    IN  IF found = {}
        THEN ContactOutcome(R(404, "Contact not found"), rows, seq)
        ELSE ContactOutcome([R(200, "") EXCEPT !.contacts = found],
                            {c \in rows : c.user_id # user.id}, seq)

\* DELETE /contacts/{contact_id}
remove_contact(rows, seq, contact_id, user) ==
    LET R(status, detail) ==
            Response("remove_contact", ContactArgs(user, contact_id, {}),
                     status, detail)
        found == get_contact_by_id(rows, contact_id, user)
    IN  IF found = {}
        THEN ContactOutcome(R(404, "Contact not found"), rows, seq)
        ELSE ContactOutcome([R(200, "") EXCEPT !.contacts = found],
                            rows \ found, seq)

\* the calendar of date.today() + timedelta(days=7), in a year of 365 days
DaysInMonth(m) ==
    IF m = 2 THEN 28 ELSE IF m \in {4, 6, 9, 11} THEN 30 ELSE 31

NextDay(d) ==
    IF d.day < DaysInMonth(d.month)
    THEN [month |-> d.month, day |-> d.day + 1]
    ELSE [month |-> (d.month % 12) + 1, day |-> 1]

RECURSIVE AddDays(_, _)
AddDays(d, n) == IF n = 0 THEN d ELSE AddDays(NextDay(d), n - 1)

Todays ==
    {[month |-> 1, day |-> 1], [month |-> 1, day |-> 28],
     [month |-> 12, day |-> 28]}

\* ContactRepository.get_contacts_with_upcoming_birthdays
get_contacts_with_upcoming_birthdays(rows, today, user) ==
    LET future_date == AddDays(today, 7)
    IN  {c \in rows :
            /\ c.user_id = user.id
            /\ c.birthday.month >= today.month
            /\ c.birthday.day >= today.day
            /\ c.birthday.month <= future_date.month
            /\ c.birthday.day <= future_date.day}

\* GET /contacts/upcoming_birthdays/
coming_birthday_contacts(rows, seq, today, user) ==
    ContactOutcome([Response("coming_birthday_contacts",
                             ContactArgs(user, 0, {today}), 200, "") EXCEPT
                        !.contacts =
                            get_contacts_with_upcoming_birthdays(rows, today,
                                                                 user)],
                   rows, seq)

-----------------------------------------------------------------------------
(* SpecContacts: two confirmed users, each request already resolved to one *)
(* of them by get_current_user.                                            *)

OwnerAlice ==
    [create_user({}, "alice", "alice@x.com", get_password_hash("pw1"),
                 GravatarImage("alice@x.com", TRUE))
        EXCEPT !.confirmed = TRUE]

OwnerBob ==
    [create_user({OwnerAlice}, "bob@x.com", "bob@x.com",
                 get_password_hash("pw1"), GravatarImage("bob@x.com", TRUE))
        EXCEPT !.confirmed = TRUE]

InitContacts ==
    /\ users = {OwnerAlice, OwnerBob}
    /\ contacts = {}
    /\ nextId = 1
    /\ cache = {}
    /\ now = 0
    /\ tz = 0
    /\ held = {}
    /\ ticks = 0
    /\ resp = NoResponse
    /\ reqs = <<>>

ContactIds == 1..MaxContacts

ServeContacts(o) ==
    /\ contacts' = o.contacts
    /\ nextId' = o.nextId
    /\ resp' = Brief(o.resp)
    /\ UNCHANGED <<users, cache, now, tz, held, ticks, reqs>>

CreateContact ==
    \E user \in Identities, body \in ContactBodies :
        /\ nextId <= MaxContacts
        /\ ServeContacts(create_contact(contacts, nextId, body, user))

ReadContact ==
    \E user \in Identities, contact_id \in ContactIds :
        ServeContacts(read_contact(contacts, nextId, contact_id, user))

ReadContacts ==
    \E user \in Identities, params \in {{}} \cup {{e} : e \in ContactEmails} :
        ServeContacts(read_contacts(contacts, nextId, params, user))

UpdateContact ==
    \E user \in Identities, contact_id \in ContactIds, body \in ContactBodies :
        ServeContacts(update_contact(contacts, nextId, contact_id, body, user))

RemoveContact ==
    \E user \in Identities, contact_id \in ContactIds :
        ServeContacts(remove_contact(contacts, nextId, contact_id, user))

ComingBirthdayContacts ==
    \E user \in Identities, today \in Todays :
        ServeContacts(coming_birthday_contacts(contacts, nextId, today, user))

NextContacts ==
    \/ ComingBirthdayContacts
    \/ CreateContact
    \/ ReadContact
    \/ ReadContacts
    \/ UpdateContact
    \/ RemoveContact

SpecContacts == InitContacts /\ [][NextContacts]_vars

\* C10: creating a contact whose email or whose phone number equals that of
\* an existing contact of the same owner is rejected with a client error
\* whose detail says "already exists", and the contacts are unchanged.
C10_DuplicateContactRejected ==
    \A user \in Identities, body \in ContactBodies :
        (\E c \in contacts :
            /\ c.user_id = user.id
            /\ (c.email = body.email \/ c.phone_number = body.phone_number))
        =>
            LET o == create_contact(contacts, nextId, body, user)
            IN  /\ o.resp.status \in {400, 409}
                /\ o.resp.detail =
                    "Contact with this email or phone number already exists."
                /\ o.contacts = contacts

\* C11: no two contacts of one owner share an email, and no two share a
\* phone number, whatever create_contact, update_contact and remove_contact
\* have done; an update_contact that would make two of them equal leaves
\* the contacts as they were.
C11_ContactsUnique ==
    /\ \A c \in contacts, d \in contacts :
            (c.id # d.id /\ c.user_id = d.user_id) =>
                (c.email # d.email /\ c.phone_number # d.phone_number)
    /\ \A user \in Identities, c \in contacts, d \in contacts,
          body \in ContactBodies :
            (/\ c.id # d.id /\ c.user_id = user.id /\ d.user_id = user.id
             /\ (body.email = d.email \/ body.phone_number = d.phone_number))
            => update_contact(contacts, nextId, c.id, body, user).contacts
                    = contacts

C11_Witness ==
    /\ resp.op = "update_contact"
    /\ resp.status = 500
    /\ resp.detail = "IntegrityError"
    /\ \E c \in contacts, d \in contacts, body \in resp.args.body :
        /\ c.id = resp.args.contact_id /\ d.id # c.id
        /\ c.user_id = resp.args.user_id /\ d.user_id = c.user_id
        /\ (body.email = d.email \/ body.phone_number = d.phone_number)

\* C12: a caller reaches only contacts of their own: read_contact,
\* update_contact and remove_contact with the id of another user's contact
\* answer 404 "Contact not found" and leave the contacts as they were, and
\* read_contacts and coming_birthday_contacts return none of them.
C12_OwnerIsolation ==
    \A A \in Identities, c \in contacts :
        c.user_id # A.id =>
            /\ \A o \in {read_contact(contacts, nextId, c.id, A),
                          remove_contact(contacts, nextId, c.id, A)}
                         \cup {update_contact(contacts, nextId, c.id, body, A) :
                                    body \in ContactBodies} :
                    /\ o.resp.status = 404
                    /\ o.resp.detail = "Contact not found"
                    /\ o.resp.contacts = {}
                    /\ o.contacts = contacts
            /\ \A o \in {read_contacts(contacts, nextId, params, A) :
                            params \in {{}, {c.email}}}
                         \cup {coming_birthday_contacts(contacts, nextId,
                                                         today, A) :
                                    today \in Todays} :
                    /\ c \notin o.resp.contacts
                    /\ \A d \in o.resp.contacts : d.user_id = A.id
                    /\ o.contacts = contacts

C12_Witness ==
    /\ resp.op = "remove_contact"
    /\ resp.status = 404
    /\ \E c \in contacts :
        c.id = resp.args.contact_id /\ c.user_id # resp.args.user_id

\* the statuses of a success and of the outcomes the handlers raise as
\* HTTPException: validation, Unauthenticated, Forbidden, NotFound, Conflict,
\* token error, GatewayFailure
HandledStatuses == {200, 201, 400, 401, 403, 404, 409, 422, 502}

\* C21: every request to a contacts operation ends in a success or in a
\* status one of the handlers raises; none ends as an exception nobody
\* caught (500).
C21_NoUnhandledFault ==
    \A user \in Identities, contact_id \in ContactIds, body \in ContactBodies,
       today \in Todays :
        \A o \in {create_contact(contacts, nextId, body, user),
                   update_contact(contacts, nextId, contact_id, body, user),
                   read_contact(contacts, nextId, contact_id, user),
                   read_contacts(contacts, nextId, {}, user),
                   remove_contact(contacts, nextId, contact_id, user),
                   coming_birthday_contacts(contacts, nextId, today, user)} :
            o.resp.status \in HandledStatuses

\* C23: remove_contact on a contact of the caller returns it and deletes it
\* and nothing else; from then on remove_contact, read_contact and
\* update_contact with that id by that caller answer 404 "Contact not
\* found" and change nothing, and no later step brings the id back.
C23_RemoveContact ==
    /\ [](\A user \in Identities, c \in contacts :
            c.user_id = user.id =>
                LET o == remove_contact(contacts, nextId, c.id, user)
                IN  /\ o.resp.status = 200
                    /\ o.resp.contacts = {c}
                    /\ o.contacts = contacts \ {c}
                    /\ o.nextId = nextId
                    /\ \A p \in {remove_contact(o.contacts, o.nextId, c.id,
                                                 user),
                                  read_contact(o.contacts, o.nextId, c.id, user)}
                                 \cup {update_contact(o.contacts, o.nextId, c.id,
                                                      body, user) :
                                            body \in ContactBodies} :
                            /\ p.resp.status = 404
                            /\ p.resp.detail = "Contact not found"
                            /\ p.contacts = o.contacts)
    /\ [][/\ \A id \in 1..(nextId - 1) :
                (\A c \in contacts : c.id # id) =>
                    (\A c \in contacts' : c.id # id)
          /\ \A c \in contacts : c.id < nextId
         ]_vars

C23_Witness ==
    /\ resp.op = "remove_contact"
    /\ resp.status = 404
    /\ resp.args.contact_id < nextId
    /\ \A c \in contacts : c.id # resp.args.contact_id
    /\ \E c \in contacts : c.user_id = resp.args.user_id

\* a body update_contact can store in contact c: its phone number passes
\* the validator and no other contact of the owner has its email or phone
Storable(rows, c, body) ==
    /\ validate_phone_number(body.phone_number)
    /\ \A d \in rows :
            (d.id # c.id /\ d.user_id = c.user_id) =>
                (d.email # body.email /\ d.phone_number # body.phone_number)

UpcomingDays(today) == {AddDays(today, k) : k \in 0..7}

\* C22: coming_birthday_contacts returns exactly the caller's contacts whose
\* birthday (month and day) is one of the days from today through today
\* plus 7 days, also when those days run into the next month or year.
C22_UpcomingBirthdays ==
    \A user \in Identities, today \in Todays :
        coming_birthday_contacts(contacts, nextId, today, user).resp.contacts
            = {c \in contacts :
                c.user_id = user.id /\ c.birthday \in UpcomingDays(today)}

-----------------------------------------------------------------------------
(* SpecRace: MaxReq requests served by one event loop.  A request runs     *)
(* from one await to the next in a step of its own; the synchronous redis  *)
(* calls and the after_update listener run inside the step that reaches    *)
(* them.  reqs[i] is the request's position (pc), its inputs, what it has  *)
(* read so far and, once done, its response.                               *)

Slots == 1..MaxReq

Idle ==
    [op |-> "none", pc |-> "idle", token |-> {}, body |-> {}, user |-> {},
     snap |-> {}, status |-> 0, detail |-> ""]

UploadOutcomes == BOOLEAN

RaceBodies ==
    {b \in ContactBodies :
        b.first_name = "Ann" /\ validate_phone_number(b.phone_number)}

RaceAlice == OwnerAlice
RaceBob == [OwnerBob EXCEPT !.confirmed = FALSE]

InitRace ==
    /\ users = {RaceAlice, RaceBob}
    /\ contacts = {}
    /\ nextId = 1
    /\ cache = {}
    /\ now = 0
    /\ tz = 0
    /\ held = {create_access_token("alice", 0, 0),
               create_email_token("bob@x.com", 0)}
    /\ ticks = 0
    /\ resp = NoResponse
    /\ reqs = [i \in Slots |-> Idle]

Done(r, status, detail) ==
    [r EXCEPT !.pc = "done", !.status = status, !.detail = detail]

Step(i, r) == reqs' = [reqs EXCEPT ![i] = r]

Begin(i, op, pc, tokens, body) ==
    /\ reqs[i].pc = "idle"
    /\ Step(i, [Idle EXCEPT !.op = op, !.pc = pc, !.token = tokens,
                            !.body = body])
    /\ UNCHANGED <<users, contacts, nextId, cache, now, tz, held, ticks, resp>>

AccessTokens == {t \in held : t.type = "access"}

StartMe ==
    \E i \in Slots, t \in AccessTokens : Begin(i, "me", "get", {t}, {})

StartUpdateAvatar ==
    \E i \in Slots, t \in AccessTokens, url \in AvatarUrls :
        Begin(i, "update_avatar", "get", {t}, {url})

StartCreateContact ==
    \E i \in Slots, t \in AccessTokens, body \in RaceBodies :
        Begin(i, "create_contact", "get", {t}, {body})

StartConfirmedEmail ==
    \E i \in Slots, t \in held \ AccessTokens :
        Begin(i, "confirmed_email", "lookup", {t}, {})

StartSignUp ==
    \E i \in Slots :
        \E username \in {"carol", "dave"}, email \in {"carol@x.com", "dave@x.com"},
           password \in SignUpPasswords :
            Begin(i, "sign_up", "check", {},
                  {[username |-> username, email |-> email,
                    password |-> password]})

TokenOf(r) == CHOOSE t \in r.token : TRUE
BodyOf(r) == CHOOSE b \in r.body : TRUE
UserOf(r) == CHOOSE u \in r.user : TRUE
SnapOf(r) == CHOOSE u \in r.snap : TRUE

\* where the endpoint continues once Depends(get_current_user) has a user
AfterAuth(r, row) ==
    IF ~ValidatesAsUser(row) THEN Done(r, 500, "ValidationError")
    ELSE IF r.op = "me" THEN Done([r EXCEPT !.user = {row}], 200, "")
    ELSE IF r.op = "update_avatar"
    THEN [r EXCEPT !.user = {row}, !.pc = "lookup"]
    ELSE [r EXCEPT !.user = {row}, !.pc = "check"]

\* get_current_user to its await: jwt_decode, the type check, redis get
AuthGet ==
    \E i \in Slots :
        LET r == reqs[i]
            token == TokenOf(r)
            hit == redis_get(cache, RedisKey(token.sub), now)
        IN  /\ r.pc = "get"
            /\ Step(i, IF ~JwtDecodes(token, now)
                       THEN Done(r, 401, "Could not validate credentials")
                       ELSE IF token.type # "access"
                       THEN Done(r, 401, "Invalid token type")
                       ELSE IF hit # {}
                       THEN AfterAuth(r, CHOOSE row \in hit : TRUE)
                       ELSE [r EXCEPT !.pc = "select"])
            /\ UNCHANGED <<users, contacts, nextId, cache, now, tz, held,
                           ticks, resp>>

\* the store answers get_user_by_username
AuthSelect ==
    \E i \in Slots :
        LET r == reqs[i]
            found == get_user_by_username(users, TokenOf(r).sub)
        IN  /\ r.pc = "select"
            /\ Step(i, IF found = {}
                       THEN Done(r, 401, "Could not validate credentials")
                       ELSE [r EXCEPT !.snap = found, !.pc = "set"])
            /\ UNCHANGED <<users, contacts, nextId, cache, now, tz, held,
                           ticks, resp>>

\* get_current_user resumes: redis set of the row it was given, validate
AuthSet ==
    \E i \in Slots :
        LET r == reqs[i]
        IN  /\ r.pc = "set"
            /\ cache' = redis_set(cache, RedisKey(TokenOf(r).sub), SnapOf(r),
                                  now)
            /\ Step(i, AfterAuth([r EXCEPT !.snap = {}], SnapOf(r)))
            /\ UNCHANGED <<users, contacts, nextId, now, tz, held, ticks,
                           resp>>

\* update_avatar_user: upload_file, then update_avatar_url up to its commit
AvatarLookup ==
    \E i \in Slots, uploaded \in UploadOutcomes :
        LET r == reqs[i]
            found == get_user_by_email(users, UserOf(r).email)
        IN  /\ r.op = "update_avatar" /\ r.pc = "lookup"
            /\ Step(i, IF ~uploaded
                       THEN Done(r, 502, "Cloudinary authentication failed")
                       ELSE IF found = {}
                       THEN Done(r, 500, "ValidationError")
                       ELSE [r EXCEPT !.snap = found, !.pc = "flush"])
            /\ UNCHANGED <<users, contacts, nextId, cache, now, tz, held,
                           ticks, resp>>

\* confirmed_email up to the commit of UserRepository.confirmed_email
ConfirmLookup ==
    \E i \in Slots :
        LET r == reqs[i]
            e == get_email_from_token(TokenOf(r), now)
            found == get_user_by_email(users, e.email)
        IN  /\ r.op = "confirmed_email" /\ r.pc = "lookup"
            /\ Step(i, IF e.status # 200 THEN Done(r, e.status, e.detail)
                       ELSE IF found = {}
                       THEN Done(r, 400, "Verification error")
                       ELSE IF (CHOOSE u \in found : TRUE).confirmed
                       THEN Done(r, 200, "Your email already confirmed")
                       ELSE [r EXCEPT !.snap = found, !.pc = "flush"])
            /\ UNCHANGED <<users, contacts, nextId, cache, now, tz, held,
                           ticks, resp>>

\* commit() flushes: the UPDATE takes the row's lock and after_update
\* deletes the user's cache key; the change is not visible to others yet
UpdateFlush ==
    \E i \in Slots :
        LET r == reqs[i]
        IN  /\ r.pc = "flush"
            /\ \A j \in Slots \ {i} :
                    ~(reqs[j].pc = "commit"
                        /\ SnapOf(reqs[j]).id = SnapOf(r).id)
            /\ cache' = clear_user_cache(cache, SnapOf(r))
            /\ Step(i, [r EXCEPT !.pc = "commit"])
            /\ UNCHANGED <<users, contacts, nextId, now, tz, held, ticks,
                           resp>>

\* the COMMIT: the change becomes visible
UpdateCommit ==
    \E i \in Slots :
        LET r == reqs[i]
        IN  /\ r.pc = "commit"
            /\ users' = IF r.op = "update_avatar"
                        THEN repo_update_avatar_url(users, SnapOf(r).email,
                                                    BodyOf(r))
                        ELSE repo_confirmed_email(users, SnapOf(r).email)
            /\ Step(i, Done(r, 200, IF r.op = "update_avatar" THEN ""
                                    ELSE "Email success confirmed"))
            /\ UNCHANGED <<contacts, nextId, cache, now, tz, held, ticks,
                           resp>>

\* ContactRepository.create_contact up to its commit
ContactCheck ==
    \E i \in Slots :
        LET r == reqs[i]
            raised == create_contact_precheck(contacts, BodyOf(r),
                                              UserView(UserOf(r)))
        IN  /\ r.op = "create_contact" /\ r.pc = "check"
            /\ Step(i, IF raised \in ValueErrors THEN Done(r, 400, raised)
                       ELSE IF raised # None THEN Done(r, 500, raised)
                       ELSE [r EXCEPT !.pc = "insert"])
            /\ UNCHANGED <<users, contacts, nextId, cache, now, tz, held,
                           ticks, resp>>

\* the INSERT and COMMIT of the contact: IntegrityError is not a ValueError
ContactCommit ==
    \E i \in Slots :
        LET r == reqs[i]
            contact == ContactRow(nextId, BodyOf(r), UserView(UserOf(r)))
            refused == UniqueViolated(contacts \cup {contact})
        IN  /\ r.op = "create_contact" /\ r.pc = "insert"
            /\ contacts' = CommitInsert(contacts, contact)
            /\ nextId' = IF refused THEN nextId ELSE nextId + 1
            /\ Step(i, IF refused THEN Done(r, 500, "IntegrityError")
                       ELSE Done(r, 201, ""))
            /\ UNCHANGED <<users, cache, now, tz, held, ticks, resp>>

\* register_user: the two look-ups before the hash and create_user
SignUpCheck ==
    \E i \in Slots :
        LET r == reqs[i]
            data == BodyOf(r)
        IN  /\ r.op = "sign_up" /\ r.pc = "check"
            /\ Step(i, IF get_user_by_username(users, data.username) # {}
                       THEN Done(r, 409, "User with username: "
                                    \o data.username \o " already exists")
                       ELSE IF get_user_by_email(users, data.email) # {}
                       THEN Done(r, 409, "User with email: " \o data.email
                                    \o " already exists")
                       ELSE [r EXCEPT !.pc = "insert"])
            /\ UNCHANGED <<users, contacts, nextId, cache, now, tz, held,
                           ticks, resp>>

\* username and email are unique columns
UserUniqueViolated(rows, row) ==
    \E u \in rows : u.username = row.username \/ u.email = row.email

\* UserRepository.create_user: the INSERT and COMMIT of the user
SignUpCommit ==
    \E i \in Slots :
        LET r == reqs[i]
            data == BodyOf(r)
            new_user == create_user(users, data.username, data.email,
                                    get_password_hash(data.password),
                                    GravatarImage(data.email, TRUE))
            refused == UserUniqueViolated(users, new_user)
        IN  /\ r.op = "sign_up" /\ r.pc = "insert"
            /\ users' = IF refused THEN users ELSE users \cup {new_user}
            /\ Step(i, IF refused THEN Done(r, 500, "IntegrityError")
                       ELSE Done([r EXCEPT !.user = {new_user}], 201, ""))
            /\ UNCHANGED <<contacts, nextId, cache, now, tz, held, ticks,
                           resp>>

NextRace ==
    \/ StartMe
    \/ StartUpdateAvatar
    \/ StartCreateContact
    \/ StartConfirmedEmail
    \/ StartSignUp
    \/ AuthGet
    \/ AuthSelect
    \/ AuthSet
    \/ AvatarLookup
    \/ ConfirmLookup
    \/ UpdateFlush
    \/ UpdateCommit
    \/ ContactCheck
    \/ ContactCommit
    \/ SignUpCheck
    \/ SignUpCommit

SpecRace == InitRace /\ [][NextRace]_vars

Updates == {"update_avatar", "confirmed_email"}

Committed(r) == r.op \in Updates /\ r.pc = "done" /\ r.status = 200
                    /\ r.snap # {}

\* C4: once an update of a user has committed and no other update of that
\* user is on its way, a lookup of the user's cache key misses or returns
\* the row as the store has it, never the row from before the update.
C4_CacheNeverStale ==
    \A i \in Slots :
        (/\ Committed(reqs[i])
         /\ \A j \in Slots : reqs[j].pc \notin {"flush", "commit"}) =>
            \A row \in redis_get(cache, RedisKey(SnapOf(reqs[i]).username),
                                 now) :
                row \in users

\* C5: of two create_contact requests for one owner and one email that have
\* both finished, exactly one created the contact and the other was told
\* that the contact already exists.
C5_ConcurrentCreateOneConflict ==
    \A i \in Slots, j \in Slots :
        (/\ i # j
         /\ reqs[i].op = "create_contact" /\ reqs[i].pc = "done"
         /\ reqs[j].op = "create_contact" /\ reqs[j].pc = "done"
         /\ reqs[i].user # {} /\ reqs[i].user = reqs[j].user
         /\ BodyOf(reqs[i]).email = BodyOf(reqs[j]).email) =>
            \/ /\ reqs[i].status = 201
               /\ reqs[j].status \in {400, 409}
               /\ reqs[j].detail =
                    "Contact with this email or phone number already exists."
            \/ /\ reqs[j].status = 201
               /\ reqs[i].status \in {400, 409}
               /\ reqs[i].detail =
                    "Contact with this email or phone number already exists."

\* C6: of two sign_up requests with one username or one email that have
\* both finished, exactly one created the user and the other got 409.
C6_ConcurrentSignUpOneConflict ==
    \A i \in Slots, j \in Slots :
        (/\ i # j
         /\ reqs[i].op = "sign_up" /\ reqs[i].pc = "done"
         /\ reqs[j].op = "sign_up" /\ reqs[j].pc = "done"
         /\ \/ BodyOf(reqs[i]).username = BodyOf(reqs[j]).username
            \/ BodyOf(reqs[i]).email = BodyOf(reqs[j]).email) =>
            \/ reqs[i].status = 201 /\ reqs[j].status = 409
            \/ reqs[j].status = 201 /\ reqs[i].status = 409

-----------------------------------------------------------------------------
(* SpecSession: the session of a request.  get_db opens an AsyncSession    *)
(* (autoflush off) for the request; the repository changes objects in the  *)
(* session and commits; DatabaseSessionManager.session rolls back on a     *)
(* SQLAlchemyError, re-raises, and closes in its finally clause.  reqs[i]  *)
(* holds the request's position, its session ("none", "open", "closed"),   *)
(* the objects the session holds changed (pending) or marked for deletion  *)
(* (deleted), and the exception on its way out.  Other requests read the   *)
(* committed rows only.                                                    *)

SessionOps == {"create_contact", "update_contact", "remove_contact"}

SessionBodies == {b \in ContactBodies : b.first_name = "Ben"}

NoSession ==
    [op |-> "none", pc |-> "idle", session |-> "none", contact_id |-> 0,
     body |-> {}, pending |-> {}, deleted |-> {}, error |-> None,
     rolled_back |-> FALSE, status |-> 0, detail |-> ""]

SessionContacts ==
    {ContactRow(1, [first_name |-> "Ann", email |-> "a@x.com",
                    phone_number |-> Phone("+15551234567", TRUE, 11),
                    birthday |-> [month |-> 1, day |-> 1]],
                UserView(OwnerAlice)),
     ContactRow(2, [first_name |-> "Ann", email |-> "b@x.com",
                    phone_number |-> Phone("380935057019", FALSE, 12),
                    birthday |-> [month |-> 1, day |-> 1]],
                UserView(OwnerAlice))}

InitSession ==
    /\ users = {OwnerAlice, OwnerBob}
    /\ contacts = SessionContacts
    /\ nextId = 3
    /\ cache = {}
    /\ now = 0
    /\ tz = 0
    /\ held = {}
    /\ ticks = 0
    /\ resp = NoResponse
    /\ reqs = [i \in Slots |-> NoSession]

\* an exception leaves the repository or the endpoint
Raise(r, error, status, detail) ==
    [r EXCEPT !.pc = "raised", !.error = error, !.status = status,
              !.detail = detail]

\* session(): "except SQLAlchemyError: await session.rollback(); raise"
\* with the except clause missing
session_rollback_never(r) == [r EXCEPT !.pc = "reraise"]

\* session(): "except SQLAlchemyError: await session.rollback(); raise"
session_rollback(r) ==
    [r EXCEPT !.pc = "reraise", !.pending = {}, !.deleted = {},
              !.rolled_back = TRUE]

\* session(): "finally: await session.close()".  close() ends the
\* transaction in progress without committing and empties the session.
session_close(r) ==
    [r EXCEPT !.pc = "done", !.session = "closed", !.pending = {},
              !.deleted = {}]

\* the rows as they are once the session's changes are committed
Flushed(rows, r, seq) ==
    LET changed == {IF p.id = 0 THEN [p EXCEPT !.id = seq] ELSE p :
                        p \in r.pending}
    IN  {c \in rows : \A p \in changed \cup r.deleted : p.id # c.id}
            \cup changed

\* get_db: "async with sessionmanager.session() as session: yield session"
SessionOpen ==
    \E i \in Slots, op \in SessionOps, contact_id \in {0} \cup ContactIds,
       body \in SessionBodies :
        /\ reqs[i].pc = "idle"
        /\ op = "create_contact" <=> contact_id = 0
        /\ op = "remove_contact" => body = CHOOSE b \in SessionBodies : TRUE
        /\ Step(i, [NoSession EXCEPT
                        !.op = op, !.pc = "repository", !.session = "open",
                        !.contact_id = contact_id, !.body = {body}])
        /\ UNCHANGED <<users, contacts, nextId, cache, now, tz, held, ticks,
                       resp>>

\* the repository method up to its commit: the session's objects change,
\* the store does not.  update_contact assigns the body's fields in the
\* order of the schema, first_name and email before phone_number.
RepositoryCall ==
    \E i \in Slots :
        LET r == reqs[i]
            user == UserView(OwnerAlice)
            body == BodyOf(r)
            raised == create_contact_precheck(contacts, body, user)
            found == get_contact_by_id(contacts, r.contact_id, user)
            contact == CHOOSE c \in found : TRUE
        IN  /\ r.pc = "repository"
            /\ Step(i,
                IF r.op = "create_contact"
                THEN IF raised \in ValueErrors
                     THEN Raise(r, "HTTPException", 400, raised)
                     ELSE IF raised # None
                     THEN Raise(r, "SQLAlchemyError", 500, raised)
                     ELSE [r EXCEPT !.pc = "commit",
                                    !.pending = {ContactRow(0, body, user)}]
                ELSE IF found = {}
                THEN Raise(r, "HTTPException", 404, "Contact not found")
                ELSE IF r.op = "remove_contact"
                THEN [r EXCEPT !.pc = "commit", !.deleted = found]
                ELSE IF ~validate_phone_number(body.phone_number)
                THEN Raise([r EXCEPT !.pending =
                                {[contact EXCEPT
                                    !.first_name = body.first_name,
                                    !.email = body.email]}],
                           "ValueError", 500, "Invalid phone number format.")
                ELSE [r EXCEPT !.pc = "commit",
                               !.pending = {ContactRow(contact.id, body,
                                                       user)}])
            /\ UNCHANGED <<users, contacts, nextId, cache, now, tz, held,
                           ticks, resp>>

\* await self.db.commit(): the flush and the COMMIT.  The store may be
\* unreachable (OperationalError), a row to update or delete may be gone
\* (StaleDataError), a unique constraint may fail (IntegrityError); all
\* three are SQLAlchemyError and leave the committed rows as they were.
SessionCommit ==
    \E i \in Slots, storeOk \in BOOLEAN :
        LET r == reqs[i]
            after == Flushed(contacts, r, nextId)
            stale == \E p \in r.pending \cup r.deleted :
                        p.id # 0 /\ \A c \in contacts : c.id # p.id
            refused == ~storeOk \/ stale \/ UniqueViolated(after)
        IN  /\ r.pc = "commit"
            /\ contacts' = IF refused THEN contacts ELSE after
            /\ nextId' = IF ~refused /\ r.op = "create_contact"
                         THEN nextId + 1 ELSE nextId
            /\ Step(i,
                IF ~storeOk
                THEN Raise(r, "SQLAlchemyError", 500, "OperationalError")
                ELSE IF stale
                THEN Raise(r, "SQLAlchemyError", 500, "StaleDataError")
                ELSE IF UniqueViolated(after)
                THEN Raise(r, "SQLAlchemyError", 500, "IntegrityError")
                ELSE [r EXCEPT !.pc = "returned", !.pending = {},
                               !.deleted = {},
                               !.status = IF r.op = "create_contact"
                                          THEN 201 ELSE 200])
            /\ UNCHANGED <<users, cache, now, tz, held, ticks, resp>>

\* the exception reaches session()'s except clause
SessionExcept ==
    \E i \in Slots :
        /\ reqs[i].pc = "raised"
        /\ reqs[i].error = "SQLAlchemyError"
        /\ Step(i, session_rollback(reqs[i]))
        /\ UNCHANGED <<users, contacts, nextId, cache, now, tz, held, ticks,
                       resp>>

\* session()'s finally clause: after the endpoint returned, after the
\* except clause re-raised, or with an exception the clause does not name
SessionFinally ==
    \E i \in Slots :
        /\ \/ reqs[i].pc \in {"returned", "reraise"}
           \/ reqs[i].pc = "raised" /\ reqs[i].error # "SQLAlchemyError"
        /\ Step(i, session_close(reqs[i]))
        /\ UNCHANGED <<users, contacts, nextId, cache, now, tz, held, ticks,
                       resp>>

NextSession ==
    \/ SessionOpen
    \/ RepositoryCall
    \/ SessionCommit
    \/ SessionExcept
    \/ SessionFinally

SpecSession == InitSession /\ [][NextSession]_vars

\* C25: a request that has completed has its session closed, with nothing
\* left in it; one that raised a store error was rolled back before the
\* error went on and before the close; and the committed rows change only
\* in the step in which a request's commit succeeds, by all of that
\* request's changes at once, so a request that failed has written nothing.
C25_SessionClosedRolledBack ==
    /\ [](\A i \in Slots :
            /\ reqs[i].pc = "done" =>
                /\ reqs[i].session = "closed"
                /\ reqs[i].pending = {} /\ reqs[i].deleted = {}
            /\ reqs[i].pc \notin {"idle", "done"} => reqs[i].session = "open"
            /\ (reqs[i].pc \in {"reraise", "done"}
                    /\ reqs[i].error = "SQLAlchemyError") =>
                    reqs[i].rolled_back)
    /\ [][/\ contacts' # contacts =>
                \E i \in Slots :
                    /\ reqs[i].pc = "commit"
                    /\ reqs'[i].pc = "returned"
                    /\ reqs'[i].error = None
                    /\ contacts' = Flushed(contacts, reqs[i], nextId)
          /\ \A i \in Slots :
                (reqs'[i].pc = "done" /\ reqs[i].pc # "done"
                    /\ reqs[i].error = "SQLAlchemyError") =>
                        /\ reqs[i].pc = "reraise"
                        /\ reqs[i].rolled_back
                        /\ reqs[i].pending = {}
         ]_vars

C25_Witness ==
    \E i \in Slots, j \in Slots :
        /\ reqs[i].pc = "done" /\ reqs[i].session = "closed"
        /\ reqs[i].op = "update_contact"
        /\ reqs[i].error = "SQLAlchemyError"
        /\ reqs[i].detail = "IntegrityError"
        /\ reqs[i].rolled_back
        /\ reqs[j].pc = "done" /\ reqs[j].session = "closed"
        /\ reqs[j].error = "ValueError"
        /\ contacts = SessionContacts

====
